---- MODULE Spec2Model ----
(***************************************************************************)
(* Model of challenge-2/agents/json_structuring_agent.py.                  *)
(*                                                                         *)
(* Texts (the model reply, the prior-stage payload, the OCR text, a file   *)
(* path) are sequences of one-string tokens.  The structural characters    *)
(* of JSON, the blank, the dot and the slash are tokens of one character,  *)
(* the backtick is the token BackTick; a JSON member such as               *)
(* "status":"success" is one token (MemberKey and MemberVal give the key   *)
(* and the value it stands for), and so                                    *)
(* are the scalar literals 1, null ("n") and a string literal ("q").       *)
(* Indices are 1-based; NotFound (0) stands for Python's -1.               *)
(***************************************************************************)
EXTENDS Integers, Sequences, FiniteSets, TLC

\* ---------------------------------------------------------------- bounds
MaxReplyBody == 3
MaxNormBody == 4
MaxTextLen == 1
MaxPathLen == 4

\* ---------------------------------------------------------------- constants
NotFound == 0
None == "None"
Now == "now"
model_deployment_name == "gpt-4o-mini"
AgentName == "OCRTextExtractionAgent"
SuppliedAgentName == "PrebuiltAgent"
BackTick == "BT"
Fence == <<BackTick, BackTick, BackTick>>
EmptyDict == [x \in {} |-> None]

VARIABLES
    pc,                \* position of the running call
    entry,             \* which public entry point was called
    ocr_result_json,   \* argument of process_ocr_result
    ocr_text,          \* argument / local of structure_ocr_to_json
    source_file,       \* argument / local of structure_ocr_to_json
    project_client,    \* argument / local: None, "supplied" or "created"
    agent,             \* argument / local: None or the name of the agent
    agent_arg,         \* the agent argument as passed by the caller
    calls,             \* remote operations issued during the call
    failed,            \* the remote operation that raised, or None
    request,           \* the request submitted to responses.create
    output_text,       \* response.output_text as received
    response_text,     \* local response_text when json.loads is reached
    result,            \* the returned mapping
    outcome,           \* which return (or raise) ended the call
    input_file,        \* main: sys.argv[1]
    output_file        \* main: the file written

vars == <<pc, entry, ocr_result_json, ocr_text, source_file, project_client,
          agent, agent_arg, calls, failed, request, output_text,
          response_text, result, outcome, input_file, output_file>>

cliVars == <<input_file, output_file>>
callVars == <<entry, ocr_result_json, ocr_text, source_file, project_client,
              agent, agent_arg, calls, failed, request, output_text,
              response_text, result>>

\* ---------------------------------------------------------------- strings
RECURSIVE SeqsUpTo(_, _)
SeqsUpTo(S, n) ==
    IF n = 0 THEN {<<>>}
    ELSE LET shorter == SeqsUpTo(S, n - 1)
         IN  shorter \cup {Append(s, c) : s \in {t \in shorter : Len(t) = n - 1}, c \in S}

IsWs(c) == c = " "

RECURSIVE LStrip(_)
LStrip(s) == IF s # <<>> /\ IsWs(Head(s)) THEN LStrip(Tail(s)) ELSE s

RECURSIVE RStrip(_)
RStrip(s) ==
    IF s # <<>> /\ IsWs(s[Len(s)]) THEN RStrip(SubSeq(s, 1, Len(s) - 1)) ELSE s

Strip(s) == RStrip(LStrip(s))

find(s, c) ==
    LET hits == {i \in 1..Len(s) : s[i] = c}
    IN  IF hits = {} THEN NotFound ELSE CHOOSE i \in hits : \A j \in hits : i <= j

rfind(s, c) ==
    LET hits == {i \in 1..Len(s) : s[i] = c}
    IN  IF hits = {} THEN NotFound ELSE CHOOSE i \in hits : \A j \in hits : i >= j

StartsWith(s, p) == Len(s) >= Len(p) /\ SubSeq(s, 1, Len(p)) = p

\* ---------------------------------------------------------------- json
\* Member tokens: the text of one "key": value pair of an object.
MemberToks == {"m", "k", "S", "F", "E", "T0", "T1", "P"}

MemberKey(tok) ==
    CASE tok = "m" -> "metadata"
      [] tok = "k" -> "confidence"
      [] tok \in {"S", "F"} -> "status"
      [] tok = "E" -> "error"
      [] tok \in {"T0", "T1"} -> "text"
      [] tok = "P" -> "file_path"

MemberVal(tok) ==
    CASE tok = "m" -> EmptyDict
      [] tok = "k" -> "high"
      [] tok = "S" -> "success"
      [] tok = "F" -> "error"
      [] tok = "E" -> "scan failed"
      [] tok = "T0" -> <<>>
      [] tok = "T1" -> <<"a">>
      [] tok = "P" -> "doc.jpg"

\* dict[key] = value
Put(d, key, value) ==
    [x \in (DOMAIN d) \cup {key} |-> IF x = key THEN value ELSE d[x]]

\* dict.get(key, default)
Get(d, key, default) == IF key \in DOMAIN d THEN d[key] ELSE default

RECURSIVE SkipWs(_, _)
SkipWs(s, i) == IF i <= Len(s) /\ IsWs(s[i]) THEN SkipWs(s, i + 1) ELSE i

RECURSIVE DigitsEnd(_, _)
DigitsEnd(s, i) == IF i <= Len(s) /\ s[i] = "1" THEN DigitsEnd(s, i + 1) ELSE i

\* json.JSONDecodeError(msg, doc, pos)
DecodeError(msg, i) ==
    [ok |-> FALSE, type |-> "JSONDecodeError", value |-> EmptyDict, pos |-> i, msg |-> msg]

Decoded(type, value, i) ==
    [ok |-> TRUE, type |-> type, value |-> value, pos |-> i, msg |-> ""]

RECURSIVE ParseValue(_, _)
RECURSIVE ParseMembers(_, _, _)
RECURSIVE ParseElems(_, _)

\* The members of an object, i at the place of a member.
ParseMembers(s, i, acc) ==
    IF i > Len(s) \/ s[i] \notin MemberToks
    THEN DecodeError("Expecting property name enclosed in double quotes", i)
    ELSE LET d == Put(acc, MemberKey(s[i]), MemberVal(s[i]))
             j == SkipWs(s, i + 1)
         IN  IF j <= Len(s) /\ s[j] = "}" THEN Decoded("dict", d, j + 1)
             ELSE IF j <= Len(s) /\ s[j] = "," THEN ParseMembers(s, SkipWs(s, j + 1), d)
             ELSE DecodeError("Expecting ',' delimiter", j)

\* The elements of an array, i at the place of an element.
ParseElems(s, i) ==
    LET v == ParseValue(s, i)
        j == SkipWs(s, v.pos)
    IN  IF ~v.ok THEN v
        ELSE IF j <= Len(s) /\ s[j] = "]" THEN Decoded("list", EmptyDict, j + 1)
        ELSE IF j <= Len(s) /\ s[j] = "," THEN ParseElems(s, SkipWs(s, j + 1))
        ELSE DecodeError("Expecting ',' delimiter", j)

ParseValue(s, i) ==
    IF i > Len(s) THEN DecodeError("Expecting value", i)
    ELSE CASE s[i] = "1" -> Decoded("int", EmptyDict, DigitsEnd(s, i))
           [] s[i] = "n" -> Decoded("NoneType", EmptyDict, i + 1)
           [] s[i] = "q" -> Decoded("str", EmptyDict, i + 1)
           [] s[i] = "{" ->
                LET j == SkipWs(s, i + 1)
                IN  IF j <= Len(s) /\ s[j] = "}" THEN Decoded("dict", EmptyDict, j + 1)
                    ELSE ParseMembers(s, j, EmptyDict)
           [] s[i] = "[" ->
                LET j == SkipWs(s, i + 1)
                IN  IF j <= Len(s) /\ s[j] = "]" THEN Decoded("list", EmptyDict, j + 1)
                    ELSE ParseElems(s, j)
           [] OTHER -> DecodeError("Expecting value", i)

\* json.loads(s)
json_loads(s) ==
    LET v == ParseValue(s, SkipWs(s, 1))
        j == SkipWs(s, v.pos)
    IN  IF ~v.ok THEN v
        ELSE IF j <= Len(s) THEN DecodeError("Extra data", j)
        ELSE v

RECURSIVE Join(_)
\* The members joined by commas.
Join(ms) ==
    IF ms = <<>> THEN <<>>
    ELSE IF Len(ms) = 1 THEN ms
    ELSE <<Head(ms), ",">> \o Join(Tail(ms))

\* ---------------------------------------------------------------- normalizer
\* Mutant of Slice: response_text[start_idx:end_idx], the last brace left out.
SliceExclusive(text, start_idx, end_idx) == SubSeq(text, start_idx, end_idx - 1)

\* response_text[start_idx:end_idx+1]
Slice(text, start_idx, end_idx) == SubSeq(text, start_idx, end_idx)

StartsWithFence(text) == StartsWith(text, Fence)

\* Mutant of BothFound: start_idx != -1 or end_idx != -1
EitherFound(start_idx, end_idx) == start_idx # NotFound \/ end_idx # NotFound

\* Line 169: start_idx != -1 and end_idx != -1
BothFound(start_idx, end_idx) == start_idx # NotFound /\ end_idx # NotFound

\* Lines 165-170: trim a fenced reply to its outermost braces.
Normalize(text) ==
    IF StartsWithFence(text)
    THEN LET start_idx == find(text, "{")
             end_idx == rfind(text, "}")
         IN  IF BothFound(start_idx, end_idx)
             THEN Slice(text, start_idx, end_idx)
             ELSE text
    ELSE text

\* ---------------------------------------------------------------- results
NoResult == [pending |-> TRUE]
NoRequest == [input |-> <<>>, agent_name |-> None]
NoCalls == [client |-> 0, agent |-> 0, submit |-> 0]

\* source_file or "unknown"
OrUnknown(src) == IF src = None \/ src = "" THEN "unknown" ELSE src

\* Lines 144-150: the user message wrapping the OCR text.
UserQuery(text) == <<"---OCR TEXT START---">> \o text \o <<"---OCR TEXT END---">>

\* Mutant of Stamp: structured_data.setdefault("metadata", {...})
StampKeepExisting(structured_data, src, text) ==
    IF "metadata" \in DOMAIN structured_data THEN structured_data
    ELSE Put(structured_data, "metadata",
             [source_file |-> OrUnknown(src),
              processing_timestamp |-> Now,
              agent_model |-> model_deployment_name,
              original_text_length |-> Len(text)])

\* Lines 175-180: structured_data["metadata"] = {...}
Stamp(structured_data, src, text) ==
    Put(structured_data, "metadata",
        [source_file |-> OrUnknown(src),
         processing_timestamp |-> Now,
         agent_model |-> model_deployment_name,
         original_text_length |-> Len(text)])

\* Lines 185-197: except json.JSONDecodeError
ParseErrorResult(msg, raw, src) ==
    [error |-> "JSON parsing failed",
     error_details |-> msg,
     raw_response |-> raw,
     metadata |-> [source_file |-> OrUnknown(src),
                   processing_timestamp |-> Now,
                   agent_model |-> model_deployment_name]]

\* Lines 199-208: except Exception
ProcessingFailedResult(msg, src) ==
    [error |-> "Processing failed",
     error_details |-> msg,
     metadata |-> [source_file |-> OrUnknown(src), processing_timestamp |-> Now]]

\* Lines 226-233
UpstreamErrorResult(ocr_data) ==
    [error |-> "OCR processing failed",
     ocr_error |-> Get(ocr_data, "error", "Unknown error"),
     metadata |-> [source_file |-> Get(ocr_data, "file_path", "unknown"),
                   processing_timestamp |-> Now]]

\* Lines 240-246
EmptyInputResult(src) ==
    [error |-> "No text extracted from OCR",
     metadata |-> [source_file |-> OrUnknown(src), processing_timestamp |-> Now]]

\* Lines 251-258
InvalidPayloadResult(msg) ==
    [error |-> "Invalid OCR result JSON",
     error_details |-> msg,
     metadata |-> [processing_timestamp |-> Now]]

\* An exception that leaves the entry point.
Raised(exc) == [exception |-> exc]

\* Mutant of StatusIsSuccess: the gate tests ocr_data.get("status") == "error".
StatusIsNotError(ocr_data) == Get(ocr_data, "status", None) # "error"

\* Line 225: ocr_data.get("status") != "success"
StatusIsSuccess(ocr_data) == Get(ocr_data, "status", None) = "success"

\* Mutant of IsEmptyText: the gate tests ocr_text is None.
IsNoneText(text) == text # text

\* Line 239: not ocr_text
IsEmptyText(text) == text = <<>>

\* Line 191: response_text if 'response_text' in locals() else "No response"
NoResponse == <<"No response">>

\* ---------------------------------------------------------------- inputs
OcrTexts == SeqsUpTo({"a"}, MaxTextLen)
SourceFiles == {None, "doc.jpg"}
ClientArgs == {None, "supplied"}
AgentArgs == {None, SuppliedAgentName}

\* Serialized prior-stage payloads: objects with any of the fields, values
\* that are not objects, and texts that are not JSON.
PayloadObjects ==
    {<<"{">> \o Join(st \o er \o tx \o fp) \o <<"}">> :
        st \in {<<>>, <<"S">>, <<"F">>}, er \in {<<>>, <<"E">>},
        tx \in {<<>>, <<"T0">>, <<"T1">>}, fp \in {<<>>, <<"P">>}}
Payloads ==
    PayloadObjects \cup {<<"[", "]">>, <<"1">>, <<"n">>, <<"q">>, <<>>, <<"{">>}

\* Model replies: an optional blank and fence, a body, an optional fence or blank.
BodyChars == {"{", "}", "m", "k", "1"}
Leads == {<<>>, <<" ">>, Fence, <<" ">> \o Fence}
Tails == {<<>>, <<" ">>, Fence}
RepliesOf(n) == {l \o b \o t : l \in Leads, b \in SeqsUpTo(BodyChars, n), t \in Tails}
Replies == RepliesOf(MaxReplyBody)
NormReplies == RepliesOf(MaxNormBody)

\* What a failing remote operation raises.
Exceptions == {"Exception", "JSONDecodeError"}

\* ---------------------------------------------------------------- actions
Init ==
    /\ pc = "idle"
    /\ entry = None
    /\ ocr_result_json = <<>>
    /\ ocr_text = <<>>
    /\ source_file = None
    /\ project_client = None
    /\ agent = None
    /\ agent_arg = None
    /\ calls = NoCalls
    /\ failed = None
    /\ request = NoRequest
    /\ output_text = <<>>
    /\ response_text = <<>>
    /\ result = NoResult
    /\ outcome = None
    /\ input_file = <<>>
    /\ output_file = <<>>

\* Mutant of AfterFailure: the failed operation is tried again.
AfterFailureRetry == pc

\* The position after an exception handler has returned its result.
AfterFailure == "done"

\* Lines 185-208: the two handlers of structure_ocr_to_json, for an exception
\* raised before response_text is bound.
HandleRemoteFailure(op, exc) ==
    /\ failed' = op
    /\ pc' = AfterFailure
    /\ result' = IF exc = "JSONDecodeError"
                 THEN ParseErrorResult(exc, NoResponse, source_file)
                 ELSE ProcessingFailedResult(exc, source_file)
    /\ outcome' = IF exc = "JSONDecodeError" THEN "parse_error" ELSE "failed"

\* structure_ocr_to_json(ocr_text, source_file, project_client, agent), line 99
CallStructure(text, src, client, ag) ==
    /\ pc = "idle"
    /\ pc' = "client"
    /\ entry' = "structure_ocr_to_json"
    /\ ocr_text' = text
    /\ source_file' = src
    /\ project_client' = client
    /\ agent' = ag
    /\ agent_arg' = ag
    /\ UNCHANGED <<ocr_result_json, calls, failed, request, output_text,
                   response_text, result, outcome, cliVars>>

\* process_ocr_result(ocr_result_json), lines 221-258, up to its return or
\* its call of structure_ocr_to_json(ocr_text, source_file) at line 249.
CallProcess(payload) ==
    /\ pc = "idle"
    /\ entry' = "process_ocr_result"
    /\ ocr_result_json' = payload
    /\ LET loaded == json_loads(payload)
           ocr_data == loaded.value
           text == Get(ocr_data, "text", <<>>)
           src == Get(ocr_data, "file_path", None)
       IN  IF ~loaded.ok
           THEN /\ result' = InvalidPayloadResult(loaded.msg)
                /\ outcome' = "invalid_payload"
                /\ pc' = "done"
                /\ UNCHANGED <<ocr_text, source_file>>
           ELSE IF loaded.type # "dict"
           THEN /\ result' = Raised("AttributeError")
                /\ outcome' = "raised"
                /\ pc' = "done"
                /\ UNCHANGED <<ocr_text, source_file>>
           ELSE IF ~StatusIsSuccess(ocr_data)
           THEN /\ result' = UpstreamErrorResult(ocr_data)
                /\ outcome' = "upstream_error"
                /\ pc' = "done"
                /\ UNCHANGED <<ocr_text, source_file>>
           ELSE IF IsEmptyText(text)
           THEN /\ result' = EmptyInputResult(src)
                /\ outcome' = "empty_input"
                /\ pc' = "done"
                /\ ocr_text' = text
                /\ source_file' = src
           ELSE /\ pc' = "client"
                /\ ocr_text' = text
                /\ source_file' = src
                /\ UNCHANGED <<result, outcome>>
    /\ UNCHANGED <<project_client, agent, agent_arg, calls, failed, request,
                   output_text, response_text, cliVars>>

\* Line 117, project_client is not None: the supplied client is used.
UseSuppliedClient ==
    /\ pc = "client"
    /\ project_client # None
    /\ pc' = "agent"
    /\ UNCHANGED <<callVars, outcome, cliVars>>

\* Lines 117-123: AIProjectClient(...) returns.
CreateClientOk ==
    /\ pc = "client"
    /\ project_client = None
    /\ calls' = [calls EXCEPT !.client = @ + 1]
    /\ project_client' = "created"
    /\ pc' = "agent"
    /\ UNCHANGED <<entry, ocr_result_json, ocr_text, source_file, agent, agent_arg,
                   failed, request, output_text, response_text, result, outcome, cliVars>>

\* Lines 117-123: AIProjectClient(...) raises.
CreateClientFail(exc) ==
    /\ pc = "client"
    /\ project_client = None
    /\ calls' = [calls EXCEPT !.client = @ + 1]
    /\ HandleRemoteFailure("client", exc)
    /\ UNCHANGED <<entry, ocr_result_json, ocr_text, source_file, project_client,
                   agent, agent_arg, request, output_text, response_text, cliVars>>

\* Lines 129-136: agents.create_version(...) returns; the result is bound to agent.
CreateAgentOk ==
    /\ pc = "agent"
    /\ calls' = [calls EXCEPT !.agent = @ + 1]
    /\ agent' = AgentName
    /\ pc' = "openai"
    /\ UNCHANGED <<entry, ocr_result_json, ocr_text, source_file, project_client,
                   agent_arg, failed, request, output_text, response_text, result,
                   outcome, cliVars>>

\* Lines 129-136: agents.create_version(...) raises.
CreateAgentFail(exc) ==
    /\ pc = "agent"
    /\ calls' = [calls EXCEPT !.agent = @ + 1]
    /\ HandleRemoteFailure("agent", exc)
    /\ UNCHANGED <<entry, ocr_result_json, ocr_text, source_file, project_client,
                   agent, agent_arg, request, output_text, response_text, cliVars>>

\* Line 141: get_openai_client() returns.
GetOpenAIClientOk ==
    /\ pc = "openai"
    /\ pc' = "submit"
    /\ UNCHANGED <<callVars, outcome, cliVars>>

\* Line 141: get_openai_client() raises.
GetOpenAIClientFail(exc) ==
    /\ pc = "openai"
    /\ HandleRemoteFailure("openai", exc)
    /\ UNCHANGED <<entry, ocr_result_json, ocr_text, source_file, project_client,
                   agent, agent_arg, calls, request, output_text, response_text, cliVars>>

\* Lines 155-158: the request as submitted.
Submitted ==
    /\ calls' = [calls EXCEPT !.submit = @ + 1]
    /\ request' = [input |-> UserQuery(ocr_text), agent_name |-> agent]

\* Lines 155-158: responses.create(...) raises.
SubmitFail(exc) ==
    /\ pc = "submit"
    /\ Submitted
    /\ HandleRemoteFailure("submit", exc)
    /\ UNCHANGED <<entry, ocr_result_json, ocr_text, source_file, project_client,
                   agent, agent_arg, output_text, response_text, cliVars>>

\* Lines 155-197: responses.create(...) returns reply; the reply is stripped,
\* normalized, decoded and stamped, or a handler returns an error.
RespondWith(reply) ==
    /\ pc = "submit"
    /\ Submitted
    /\ output_text' = reply
    /\ LET text == Normalize(Strip(reply))
           loaded == json_loads(text)
       IN  /\ response_text' = text
           /\ IF ~loaded.ok
              THEN /\ result' = ParseErrorResult(loaded.msg, text, source_file)
                   /\ outcome' = "parse_error"
              ELSE IF loaded.type # "dict"
              THEN /\ result' = ProcessingFailedResult("TypeError", source_file)
                   /\ outcome' = "failed"
              ELSE /\ result' = Stamp(loaded.value, source_file, ocr_text)
                   /\ outcome' = "structured"
    /\ pc' = "done"
    /\ UNCHANGED <<entry, ocr_result_json, ocr_text, source_file, project_client,
                   agent, agent_arg, failed, cliVars>>

Respond == pc = "submit" /\ \E reply \in Replies : RespondWith(reply)

Next ==
    \/ \E text \in OcrTexts, src \in SourceFiles, client \in ClientArgs, ag \in AgentArgs :
          CallStructure(text, src, client, ag)
    \/ \E payload \in Payloads : CallProcess(payload)
    \/ UseSuppliedClient
    \/ CreateClientOk
    \/ \E exc \in Exceptions : CreateClientFail(exc)
    \/ CreateAgentOk
    \/ \E exc \in Exceptions : CreateAgentFail(exc)
    \/ GetOpenAIClientOk
    \/ \E exc \in Exceptions : GetOpenAIClientFail(exc)
    \/ \E exc \in Exceptions : SubmitFail(exc)
    \/ Respond

Spec == Init /\ [][Next]_vars

\* ---------------------------------------------------------------- normalizer alone
\* A direct call that has reached responses.create with a supplied client.
InitNorm ==
    /\ pc = "submit"
    /\ entry = "structure_ocr_to_json"
    /\ ocr_result_json = <<>>
    /\ ocr_text = <<"a">>
    /\ source_file = "doc.jpg"
    /\ project_client = "supplied"
    /\ agent = AgentName
    /\ agent_arg = None
    /\ calls = [client |-> 0, agent |-> 1, submit |-> 0]
    /\ failed = None
    /\ request = NoRequest
    /\ output_text = <<>>
    /\ response_text = <<>>
    /\ result = NoResult
    /\ outcome = None
    /\ input_file = <<>>
    /\ output_file = <<>>

RespondNorm == pc = "submit" /\ \E reply \in NormReplies : RespondWith(reply)

NextNorm == RespondNorm

SpecNorm == InitNorm /\ [][NextNorm]_vars

\* ---------------------------------------------------------------- main
OutputSuffix == <<"_structured.json">>

\* input_file.rsplit('.', 1)[0]
RSplitHead(s, sep) ==
    LET i == rfind(s, sep)
    IN  IF i = NotFound THEN s ELSE SubSeq(s, 1, i - 1)

\* Line 383: output_file = input_file.rsplit('.', 1)[0] + '_structured.json'
OutputFile(path) == RSplitHead(path, ".") \o OutputSuffix

\* The last component of a path.
BaseName(path) == SubSeq(path, rfind(path, "/") + 1, Len(path))

\* Paths that name a file: the last component is neither empty, "." nor "..".
InputPaths ==
    {p \in SeqsUpTo({"a", ".", "/"}, MaxPathLen) :
        BaseName(p) \notin {<<>>, <<".">>, <<".", ".">>}}

\* Lines 268-282: main is started on an existing file.
MainStart(path) ==
    /\ pc = "idle"
    /\ pc' = "main"
    /\ entry' = "main"
    /\ input_file' = path
    /\ UNCHANGED <<ocr_result_json, ocr_text, source_file, project_client, agent,
                   agent_arg, calls, failed, request, output_text, response_text,
                   result, outcome, output_file>>

\* Lines 284-400: every step succeeds and the result is saved.
MainWriteOutput ==
    /\ pc = "main"
    /\ output_file' = OutputFile(input_file)
    /\ outcome' = "cli_success"
    /\ pc' = "done"
    /\ UNCHANGED <<callVars, input_file>>

\* Lines 324-326, 402-410: a handled error; nothing is written.
MainError ==
    /\ pc = "main"
    /\ outcome' = "cli_error"
    /\ pc' = "done"
    /\ UNCHANGED <<callVars, cliVars>>

NextCLI ==
    \/ \E path \in InputPaths : MainStart(path)
    \/ MainWriteOutput
    \/ MainError

SpecCLI == Init /\ [][NextCLI]_vars

\* ---------------------------------------------------------------- claims
\* What the claims read off a state, written without the operators of the code.
PayloadLoaded == json_loads(ocr_result_json)
PayloadIsObject == PayloadLoaded.ok /\ PayloadLoaded.type = "dict"
PayloadData == PayloadLoaded.value
PayloadStatusIsSuccess ==
    "status" \in DOMAIN PayloadData /\ PayloadData["status"] = "success"
PayloadTextIsEmpty ==
    "text" \notin DOMAIN PayloadData \/ Len(PayloadData["text"]) = 0
InProcess == entry = "process_ocr_result"
InStructure == entry = "structure_ocr_to_json"
NoRemoteOperation == calls = NoCalls /\ request = NoRequest /\ failed = None
Has(text, c) == \E i \in 1..Len(text) : text[i] = c
FirstOpen(text) == CHOOSE i \in 1..Len(text) : text[i] = "{" /\ \A j \in 1..(i - 1) : text[j] # "{"
LastClose(text) == CHOOSE i \in 1..Len(text) : text[i] = "}" /\ \A j \in (i + 1)..Len(text) : text[j] # "}"
IsFenced(text) ==
    Len(text) >= 3 /\ text[1] = BackTick /\ text[2] = BackTick /\ text[3] = BackTick
EndsFenced(text) ==
    Len(text) >= 6 /\ \A i \in (Len(text) - 2)..Len(text) : text[i] = BackTick
\* The text between the opening fence and the closing fence, if there is one.
FencedInner(text) ==
    IF EndsFenced(text) THEN SubSeq(text, 4, Len(text) - 3) ELSE SubSeq(text, 4, Len(text))
\* text[a..b], both ends included, written out index by index.
IsInclusiveSpan(part, text, a, b) ==
    /\ a <= b
    /\ Len(part) = b - a + 1
    /\ \A i \in 1..Len(part) : part[i] = text[a + i - 1]
ReplyText == Strip(output_text)
MetadataKeys == {"source_file", "processing_timestamp", "agent_model", "original_text_length"}
ReturnOutcomes ==
    {"structured", "parse_error", "failed", "upstream_error", "empty_input", "invalid_payload"}

\* C1: each public entry point ends by returning a Structured Result or an
\* Error Result; no exception escapes, also for a payload that is valid JSON
\* but not an object and for a reply that decodes to a value that is not an
\* object.
C1_NoExceptionEscapes ==
    (pc = "done" /\ (InProcess \/ InStructure)) =>
        /\ outcome \in ReturnOutcomes
        /\ "exception" \notin DOMAIN result

\* C2: in process_ocr_result, when the payload is an object whose status is
\* not the success marker (or is absent), the call returns the upstream Error
\* Result, its detail is the payload's own error message ("Unknown error" when
\* the payload has none), and no remote operation was performed.
C2_UpstreamShortCircuit ==
    (InProcess /\ PayloadIsObject /\ ~PayloadStatusIsSuccess) =>
        /\ pc = "done"
        /\ outcome = "upstream_error"
        /\ result.error = "OCR processing failed"
        /\ result.ocr_error =
               (IF "error" \in DOMAIN PayloadData THEN PayloadData["error"] ELSE "Unknown error")
        /\ NoRemoteOperation

C2_Witness ==
    /\ InProcess
    /\ PayloadIsObject
    /\ "status" \in DOMAIN PayloadData
    /\ ~PayloadStatusIsSuccess
    /\ outcome = "upstream_error"
    /\ result.ocr_error = "scan failed"

\* C3: in process_ocr_result, when the payload has status success and its
\* text is empty or absent, the call returns the "no text" Error Result and no
\* remote operation was performed; and the remote service is contacted only
\* when the status is success and the text is not empty.
C3_EmptyTextShortCircuit ==
    /\ (InProcess /\ PayloadIsObject /\ PayloadStatusIsSuccess /\ PayloadTextIsEmpty) =>
          /\ pc = "done"
          /\ outcome = "empty_input"
          /\ result.error = "No text extracted from OCR"
          /\ NoRemoteOperation
    /\ (InProcess /\ (~NoRemoteOperation \/ pc \in {"client", "agent", "openai", "submit"})) =>
          /\ PayloadIsObject
          /\ PayloadStatusIsSuccess
          /\ ~PayloadTextIsEmpty

C3_Witness ==
    /\ InProcess
    /\ PayloadIsObject
    /\ PayloadStatusIsSuccess
    /\ "text" \in DOMAIN PayloadData
    /\ PayloadTextIsEmpty
    /\ outcome = "empty_input"

\* C4: every Structured Result of structure_ocr_to_json has a metadata object
\* with exactly the keys source_file, processing_timestamp, agent_model and
\* original_text_length, the last being the length of the OCR text embedded in
\* the submitted request, also when the decoded reply had a metadata key.
C4_MetadataStamped ==
    outcome = "structured" =>
        /\ "metadata" \in DOMAIN result
        /\ DOMAIN result["metadata"] = MetadataKeys
        /\ result["metadata"]["original_text_length"] = Len(request.input) - 2
        /\ SubSeq(request.input, 2, Len(request.input) - 1) = ocr_text
        /\ result["metadata"]["agent_model"] = model_deployment_name
        /\ \A key \in DOMAIN json_loads(response_text).value :
              key # "metadata" => key \in DOMAIN result

C4_Witness ==
    /\ outcome = "structured"
    /\ "metadata" \in DOMAIN json_loads(response_text).value
    /\ Len(ocr_text) > 0
    /\ "original_text_length" \in DOMAIN result["metadata"]

C6_UntrimmedUnchanged ==
    pc = "done" =>
        /\ ~IsFenced(ReplyText) => response_text = ReplyText
        /\ (IsFenced(ReplyText) /\ (~Has(ReplyText, "{") \/ ~Has(ReplyText, "}"))) =>
              /\ response_text = ReplyText
              /\ ~json_loads(response_text).ok
              /\ outcome = "parse_error"
              /\ result.error = "JSON parsing failed"
              /\ result.raw_response = ReplyText

C6_Witness ==
    /\ pc = "done"
    /\ IsFenced(ReplyText)
    /\ Has(ReplyText, "{")
    /\ ~Has(ReplyText, "}")
    /\ outcome = "parse_error"
    /\ result.raw_response = ReplyText

\* C7: whenever decoding the model reply fails, also for a fenced reply that
\* was trimmed, the parse Error Result carries the reply text as it was
\* before trimming, with the decoder's message.
C7_RawResponseIsOriginal ==
    (outcome = "parse_error" /\ failed = None) =>
        /\ result.raw_response = ReplyText
        /\ result.error_details = json_loads(response_text).msg

\* C8: a failing remote operation ends the call with an Error Result and is
\* not retried: each remote operation is issued at most once in a call, and
\* none is issued after one has failed.
C8_NoRetry ==
    /\ calls.client <= 1
    /\ calls.agent <= 1
    /\ calls.submit <= 1
    /\ failed # None =>
          /\ pc = "done"
          /\ outcome \in {"failed", "parse_error"}
          /\ result.error \in {"Processing failed", "JSON parsing failed"}
          /\ failed = "client" => calls = [client |-> 1, agent |-> 0, submit |-> 0]
          /\ failed = "agent" => (calls.agent = 1 /\ calls.submit = 0)
          /\ failed = "openai" => (calls.agent = 1 /\ calls.submit = 0)
          /\ failed = "submit" => (calls.agent = 1 /\ calls.submit = 1)

C8_Witness ==
    /\ failed = "submit"
    /\ calls.submit = 1
    /\ outcome = "failed"
    /\ result.error = "Processing failed"

\* C9: with a pre-built agent, no agent is created during the call and the
\* request is bound to the supplied agent's name; a supplied client is used
\* as it is and no client is constructed.
C9_SuppliedAgentReused ==
    /\ (InStructure /\ agent_arg # None) =>
          /\ calls.agent = 0
          /\ request.agent_name \in {None, agent_arg}
    /\ (InStructure /\ project_client = "supplied") => calls.client = 0

\* The names the CLI output may have by C10: the directory of the input, the
\* base name without its final extension, then "_structured.json".  For a
\* base name that starts with dots both readings of "final extension" count.
Stems(base) ==
    LET i == rfind(base, ".")
    IN  IF i = NotFound THEN {base}
        ELSE IF \A j \in 1..i : base[j] = "." THEN {base, SubSeq(base, 1, i - 1)}
        ELSE {SubSeq(base, 1, i - 1)}
SiblingOutputs(path) ==
    {SubSeq(path, 1, rfind(path, "/")) \o stem \o OutputSuffix : stem \in Stems(BaseName(path))}

\* C10: on a successful CLI run the output is written to a sibling of the
\* input, named as the input with its final extension replaced by
\* "_structured.json", for every input path.
C10_OutputIsSibling ==
    outcome = "cli_success" => output_file \in SiblingOutputs(input_file)

====
